---- MODULE Spec2Model ----
(***************************************************************************)
(* Model of the Node.js runtime delegate of firebase-tools                 *)
(* (src/deploy/functions/runtimes/node/index.ts): the SDK version gate,    *)
(* the discoverBuild coordinator with its bounded serve retry loop, the    *)
(* liveness window of serve and the terminate closure serve returns.       *)
(*                                                                         *)
(* One step of the model is one run-to-completion segment of the event     *)
(* loop: the code between two awaits, a timer callback, or an event        *)
(* emitted by the child process.                                           *)
(*                                                                         *)
(* The child process is the environment. A spawn either fails, and the     *)
(* child object then emits "error" on the next tick, well inside the 5 s   *)
(* window, or it yields a running process; a running process may or may    *)
(* not listen on its PORT, may exit by itself at any moment, and treats    *)
(* the quit request in one of the QuitBehaviours. A request to a port      *)
(* nobody listens on is refused. The timers fire at any moment after they  *)
(* were set. discoverBuild calls on one Delegate follow one another; the   *)
(* per-call variables describe the current call only.                      *)
(*                                                                         *)
(* Spec draws the SDK version, EnvSpec the arguments of discoverBuild and   *)
(* the host environment that serve builds the child environment from, and  *)
(* ConcSpec follows the port allocation and the bind of two calls that     *)
(* are in flight together.                                                 *)
(***************************************************************************)
EXTENDS Integers, Sequences, FiniteSets, TLC

\* ---------------------------------------------------------------- bounds
\* Number of sequential discoverBuild calls made on one Delegate.
MaxCalls == 2
\* How many busy ports portfinder may have to skip above the random base.
MaxPortSkip == 1

\* Number of validate() calls made on the Delegate.
MaxValidates == 1

\* ------------------------------------------------------------- constants
NUM_RETRIES == 3

MIN_FUNCTIONS_SDK_VERSION == [raw |-> "3.20.0", parts |-> <<3, 20, 0>>, pre |-> FALSE]

\* The value of an absent SDK version: getFunctionsSDKVersion() || "".
NoVersion == [raw |-> "", parts |-> <<>>, pre |-> FALSE]

\* What versioning.getFunctionsSDKVersion can find in the user's package.
SdkVersions ==
  { NoVersion,
    [raw |-> "not-a-version", parts |-> <<>>, pre |-> FALSE],
    [raw |-> "2.0.0", parts |-> <<2, 0, 0>>, pre |-> FALSE],
    [raw |-> "3.19.9", parts |-> <<3, 19, 9>>, pre |-> FALSE],
    [raw |-> "3.20.0-rc.1", parts |-> <<3, 20, 0>>, pre |-> TRUE],
    [raw |-> "3.20.0", parts |-> <<3, 20, 0>>, pre |-> FALSE],
    [raw |-> "3.25.0", parts |-> <<3, 25, 0>>, pre |-> FALSE],
    [raw |-> "4.0.0", parts |-> <<4, 0, 0>>, pre |-> FALSE] }

\* Math.floor(Math.random() * 40000 + 10000): the two ends of the range.
BasePorts == {10000, 49999}

\* How a child that listens on its port treats GET /__/quitquitquit:
\* it answers and exits, answers and keeps running, or never answers.
QuitBehaviours == {"exits", "ignores", "hangs"}

ChildBehaviours ==
  {[listening |-> TRUE, quit |-> q] : q \in QuitBehaviours}
    \cup {[listening |-> FALSE, quit |-> "none"]}

VARIABLES
  actualSdk,     \* what versioning.getFunctionsSDKVersion(sourceDir) yields
  _sdkVersion,   \* Delegate._sdkVersion, the cache behind the getter
  getSdkCalls,   \* calls of versioning.getFunctionsSDKVersion so far
  calls,         \* discoverBuild calls started so far
  pc,            \* position of the current discoverBuild call
  i,             \* loop variable of the retry loop
  port,          \* const port of the dynamic path (0: not allocated)
  children,      \* child processes spawned by the current call, in order
  discovered,    \* let discovered
  probeOutcome,  \* how detectFromPort settled: "none", "ok", "failed"
  kill,          \* index in children of the child the kill closure holds
  killPc,        \* position of the kill closure
  p,             \* the promise p of the kill closure
  timer,         \* the 10 s fallback timer of the kill closure
  killCalls,     \* childProcess.kill("SIGKILL") calls of the closure
  result,        \* the Build discoverBuild resolved with
  error,         \* the error discoverBuild rejected with
  logs,          \* log lines of the current call
  yamlReads,     \* detectFromYaml calls of the current call
  portAllocs,    \* findRandomOpenPort calls of the current call
  probes,        \* detectFromPort calls of the current call
  probePort,     \* the port handed to detectFromPort (0: none)
  yamlCalls,     \* outcome of each earlier call that found a manifest
  validates,     \* validate() calls so far
  config,        \* the config argument of discoverBuild
  envs,          \* the env argument of discoverBuild
  hostEnv,       \* process.env of the CLI
  cStage,        \* two calls at once: how far the dynamic path of each is
  cPort,         \* two calls at once: the port each was given (0: none)
  cBound,        \* two calls at once: the calls whose child holds its port
  foreign        \* ports held by other programs of the machine

vars == <<actualSdk, _sdkVersion, getSdkCalls, calls, pc, i, port, children,
          discovered, probeOutcome, kill, killPc, p, timer, killCalls,
          result, error, logs, yamlReads, portAllocs, probes, probePort, yamlCalls,
          validates, config, envs, hostEnv, cStage, cPort, cBound, foreign>>

sdkVars == <<actualSdk, _sdkVersion, getSdkCalls>>
killVars == <<kill, killPc, p, timer, killCalls>>
countVars == <<yamlReads, portAllocs, probes, probePort>>
\* What only a call of a method of the Delegate changes.
argVars == <<config, envs, hostEnv>>
concVars == <<cStage, cPort, cBound, foreign>>
outerVars == <<calls, yamlCalls, validates, argVars, concVars>>
\* The state of the Delegate and of its one call at a time.
delegateVars == <<sdkVars, calls, yamlCalls, validates, argVars, pc, i, port, children,
                  discovered, probeOutcome, killVars, result, error, logs, countVars>>

\* ------------------------------------------------------------ semver
\* semver.valid(v): v parses as MAJOR.MINOR.PATCH[-prerelease].
semverValid(v) == Len(v.parts) = 3

RECURSIVE partsLt(_, _, _)
partsLt(a, b, k) ==
  IF k > 3 THEN FALSE
  ELSE IF a[k] # b[k] THEN a[k] < b[k]
  ELSE partsLt(a, b, k + 1)

\* semver.lte in the place of semver.lt: the minimum itself counts as old.
semverLte(a, b) ==
  \/ partsLt(a.parts, b.parts, 1)
  \/ a.parts = b.parts /\ (a.pre \/ ~b.pre)

\* semver.lt(a, b) on valid versions: numeric precedence, and a prerelease
\* precedes the release with the same numbers.
semverLt(a, b) ==
  \/ partsLt(a.parts, b.parts, 1)
  \/ a.parts = b.parts /\ a.pre /\ ~b.pre

\* ------------------------------------------------------------ sdkVersion
\* get sdkVersion(): s is [cache, n]; the result adds the value read.
sdkVersion(s) ==
  IF s.cache.raw = ""
  THEN [cache |-> actualSdk, n |-> s.n + 1, value |-> actualSdk]
  ELSE [cache |-> s.cache, n |-> s.n, value |-> s.cache]

\* ------------------------------------------------------------ environment
\* The value of a property that is set to undefined.
Undefined == "undefined"

Digits == <<"0", "1", "2", "3", "4", "5", "6", "7", "8", "9">>

\* port.toString(): the decimal digits of the number.
RECURSIVE toString(_)
toString(n) ==
  IF n < 10 THEN <<Digits[n + 1]>>
  ELSE Append(toString(n \div 10), Digits[(n % 10) + 1])

\* JSON.stringify(config): the encoded form of the object.
JSONstringify(c) == [json |-> c]

\* The config arguments: an empty object and one with a key.
Configs == {[k \in {} |-> ""], [service |-> "key"]}

\* The env arguments: the empty object, plain user variables, and variables
\* that bear the names serve sets itself.
EnvInputs ==
  { [k \in {} |-> ""],
    [FOO |-> "bar"],
    [PORT |-> <<"9">>, FOO |-> "bar"],
    [HOME |-> "/caller", PATH |-> "/caller/bin", NODE_ENV |-> "test"],
    [PORT |-> <<"8", "0">>, FUNCTIONS_CONTROL_API |-> "false",
     CLOUD_RUNTIME_CONFIG |-> [json |-> [caller |-> "x"]]] }

\* process.env: with and without NODE_ENV, and with variables of the CLI's
\* own that serve does not name.
HostEnvs ==
  { [HOME |-> "/home/dev", PATH |-> "/usr/bin", NODE_ENV |-> "production",
     SECRET_TOKEN |-> "s3cret", FOO |-> "host"],
    [HOME |-> "/home/dev", PATH |-> "/usr/bin",
     SECRET_TOKEN |-> "s3cret", FOO |-> "host"] }

\* { ...a, ...b }: the properties of b replace those of a.
Spread(a, b) ==
  [k \in (DOMAIN a) \cup (DOMAIN b) |-> IF k \in DOMAIN b THEN b[k] ELSE a[k]]

\* process.env.X
ProcessEnv(host, k) == IF k \in DOMAIN host THEN host[k] ELSE Undefined

\* { PORT, ...envs, ... }: the object literal with the spread put last.
ServeEnvSpreadLast(prt, cfg, e, host) ==
  LET own == [PORT |-> toString(prt),
              FUNCTIONS_CONTROL_API |-> "true",
              HOME |-> ProcessEnv(host, "HOME"),
              PATH |-> ProcessEnv(host, "PATH"),
              NODE_ENV |-> ProcessEnv(host, "NODE_ENV")]
      env == Spread(own, e)
  IN IF DOMAIN cfg # {}
     THEN Spread(env, [CLOUD_RUNTIME_CONFIG |-> JSONstringify(cfg)])
     ELSE env

\* const env of serve: the object handed to spawn.
ServeEnv(prt, cfg, e, host) ==
  LET own == [PORT |-> toString(prt),
              FUNCTIONS_CONTROL_API |-> "true",
              HOME |-> ProcessEnv(host, "HOME"),
              PATH |-> ProcessEnv(host, "PATH"),
              NODE_ENV |-> ProcessEnv(host, "NODE_ENV")]
      env == Spread(e, own)
  IN IF DOMAIN cfg # {}
     THEN Spread(env, [CLOUD_RUNTIME_CONFIG |-> JSONstringify(cfg)])
     ELSE env

\* ------------------------------------------------------------ two calls at once
\* The discoverBuild calls that are in flight together.
Invocations == {1, 2}

\* The ports of the machine other programs may hold.
ForeignPorts == {10000, 10001}

\* The random bases of the calls.
ConcBases == {10000, 10001}

\* The ports that cannot be bound now.
Busy == foreign \cup {cPort[d] : d \in cBound}

\* portfinder.getPort({ port: base }): the first port at or above the base
\* that can be bound at the moment of the call.
RECURSIVE getPort(_, _)
getPort(base, busy) ==
  IF base \notin busy THEN base ELSE getPort(base + 1, busy)

InitConc ==
  /\ cStage = [d \in Invocations |-> "idle"]
  /\ cPort = [d \in Invocations |-> 0]
  /\ cBound = {}

\* ------------------------------------------------------------ initial state
\* The state of a new Delegate, but for the arguments of its calls.
InitDelegate ==
  /\ _sdkVersion = NoVersion
  /\ getSdkCalls = 0
  /\ calls = 0
  /\ pc = "idle"
  /\ i = 0
  /\ port = 0
  /\ children = <<>>
  /\ discovered = "undefined"
  /\ probeOutcome = "none"
  /\ kill = 0
  /\ killPc = "none"
  /\ p = "none"
  /\ timer = "unarmed"
  /\ killCalls = 0
  /\ result = "none"
  /\ error = "none"
  /\ logs = <<>>
  /\ yamlReads = 0
  /\ portAllocs = 0
  /\ probes = 0
  /\ probePort = 0
  /\ yamlCalls = <<>>
  /\ validates = 0

\* Every SDK version, with one choice of arguments.
Init ==
  /\ actualSdk \in SdkVersions
  /\ config = [service |-> "key"]
  /\ envs = [PORT |-> <<"9">>, FOO |-> "bar"]
  /\ hostEnv = [HOME |-> "/home/dev", PATH |-> "/usr/bin", NODE_ENV |-> "production",
                SECRET_TOKEN |-> "s3cret", FOO |-> "host"]
  /\ InitDelegate
  /\ InitConc
  /\ foreign = {}

\* Every choice of arguments, with one SDK version of each path.
EnvInit ==
  /\ actualSdk \in {[raw |-> "3.25.0", parts |-> <<3, 25, 0>>, pre |-> FALSE],
                    [raw |-> "2.0.0", parts |-> <<2, 0, 0>>, pre |-> FALSE]}
  /\ config \in Configs
  /\ envs \in EnvInputs
  /\ hostEnv \in HostEnvs
  /\ InitDelegate
  /\ InitConc
  /\ foreign = {}

\* Two calls on the dynamic path, with any ports held by other programs.
ConcInit ==
  /\ actualSdk = [raw |-> "3.25.0", parts |-> <<3, 25, 0>>, pre |-> FALSE]
  /\ config = [service |-> "key"]
  /\ envs = [FOO |-> "bar"]
  /\ hostEnv = [HOME |-> "/home/dev", PATH |-> "/usr/bin", NODE_ENV |-> "production",
                SECRET_TOKEN |-> "s3cret", FOO |-> "host"]
  /\ InitDelegate
  /\ InitConc
  /\ foreign \in SUBSET ForeignPorts

\* ------------------------------------------------------------ helpers
\* The child process object serve creates with spawn(): b is how the
\* operating system and the user's code behave for this attempt.
NewChild(b, prt) ==
  [state |-> IF b.spawned THEN "running" ELSE "spawnFailed",
   listening |-> b.listening,
   quit |-> b.quit,
   PORT |-> prt,
   env |-> ServeEnv(prt, config, envs, hostEnv),
   served |-> "window",
   exitedInWindow |-> FALSE,
   exitCause |-> "none",
   quitReceived |-> FALSE,
   sigkill |-> FALSE,
   killed |-> FALSE,
   killsAfterExit |-> 0,
   liveAtKill |-> FALSE,
   terminateCalls |-> 0]

SpawnOutcomes ==
  {[spawned |-> TRUE, listening |-> b.listening, quit |-> b.quit] : b \in ChildBehaviours}
    \cup {[spawned |-> FALSE, listening |-> FALSE, quit |-> "none"]}

\* The fresh locals of one discoverBuild invocation.
ResetCall ==
  /\ i' = 0
  /\ port' = 0
  /\ children' = <<>>
  /\ discovered' = "undefined"
  /\ probeOutcome' = "none"
  /\ kill' = 0
  /\ killPc' = "none"
  /\ p' = "none"
  /\ timer' = "unarmed"
  /\ killCalls' = 0
  /\ result' = "none"
  /\ error' = "none"
  /\ portAllocs' = 0
  /\ probes' = 0
  /\ probePort' = 0

\* The exit listener registered after the await of the quit request: an
\* exit while the request is in flight finds no listener.
ExitListenerLate(k, cause) ==
  /\ children' = [children EXCEPT ![k].state = "exited",
                                  ![k].exitCause = cause,
                                  ![k].exitedInWindow = (children[k].served = "window")]
  /\ p' = IF kill = k /\ p = "pending" /\ killPc # "fetching" THEN "resolved" ELSE p

\* The child emits "exit": its state changes and the once("exit", resolve)
\* listener of the kill closure, if registered for this child, resolves p.
Exit(k, cause) ==
  /\ children' = [children EXCEPT ![k].state = "exited",
                                  ![k].exitCause = cause,
                                  ![k].exitedInWindow = (children[k].served = "window")]
  /\ p' = IF kill = k /\ p = "pending" THEN "resolved" ELSE p

\* finally { await kill(); }: the closure runs up to its await: it creates
\* p with the exit and error listeners and issues the quit request.
CallKill(ch) ==
  /\ children' = [ch EXCEPT ![kill].terminateCalls = ch[kill].terminateCalls + 1,
                             ![kill].liveAtKill = (ch[kill].state = "running")]
  /\ p' = "pending"
  /\ killPc' = "fetching"
  /\ pc' = "kill"

\* ------------------------------------------------------------ discoverBuild
\* discoverBuild is called: the version gate, up to the first await. The
\* getter this.sdkVersion is read on lines 159, 161 or 165, and 168. A new
\* call is started once the fallback timer of the previous call is spent.
DiscoverBuild ==
  /\ pc \in {"idle", "done", "failed"}
  /\ calls < MaxCalls
  /\ timer # "armed"
  /\ calls' = calls + 1
  /\ yamlCalls' = IF discovered = "yamlBuild"
                  THEN Append(yamlCalls, [result |-> result,
                                          portAllocs |-> portAllocs,
                                          spawns |-> Len(children),
                                          probes |-> probes,
                                          terminates |-> IF killPc = "none" THEN 0 ELSE 1])
                  ELSE yamlCalls
  /\ LET s0 == [cache |-> _sdkVersion, n |-> getSdkCalls]
         s1 == sdkVersion(s0)
         s2 == sdkVersion([cache |-> s1.cache, n |-> s1.n])
         s3 == sdkVersion([cache |-> s2.cache, n |-> s2.n])
     IN IF ~semverValid(s1.value)
        THEN /\ _sdkVersion' = s2.cache
             /\ getSdkCalls' = s2.n
             /\ logs' = <<"debug: could not parse version">>
             /\ pc' = "legacy"
             /\ yamlReads' = 0
        ELSE IF semverLt(s2.value, MIN_FUNCTIONS_SDK_VERSION)
        THEN /\ _sdkVersion' = s3.cache
             /\ getSdkCalls' = s3.n
             /\ logs' = <<"warning: old sdk version">>
             /\ pc' = "legacy"
             /\ yamlReads' = 0
        ELSE /\ _sdkVersion' = s2.cache
             /\ getSdkCalls' = s2.n
             /\ logs' = <<>>
             /\ pc' = "yaml"
             /\ yamlReads' = 1
  /\ ResetCall
  /\ UNCHANGED <<actualSdk, validates, argVars, concVars>>

\* validate(): versioning.checkFunctionsSDKVersion(this.sdkVersion) reads
\* the getter once; the checks themselves keep no state of the Delegate.
Validate ==
  /\ validates < MaxValidates
  /\ validates' = validates + 1
  /\ LET s1 == sdkVersion([cache |-> _sdkVersion, n |-> getSdkCalls])
     IN /\ _sdkVersion' = s1.cache
        /\ getSdkCalls' = s1.n
  /\ UNCHANGED <<actualSdk, argVars, concVars, calls, yamlCalls, pc, i, port, children, discovered,
                 probeOutcome, killVars, result, error, logs, countVars>>

\* return parseTriggers.discoverBuild(...): the legacy analyzer resolves.
LegacyReturns ==
  /\ pc = "legacy"
  /\ pc' = "done"
  /\ result' = "legacyBuild"
  /\ UNCHANGED <<sdkVars, outerVars, i, port, children, discovered, probeOutcome,
                 killVars, error, logs, countVars>>

\* return parseTriggers.discoverBuild(...): the legacy analyzer rejects.
LegacyFails ==
  /\ pc = "legacy"
  /\ pc' = "failed"
  /\ error' = "LegacyError"
  /\ UNCHANGED <<sdkVars, outerVars, i, port, children, discovered, probeOutcome,
                 killVars, result, logs, countVars>>

\* if (!discovered) taken for a Build as well: the manifest is found and the
\* dynamic path is entered all the same.
YamlFoundStillProbes ==
  /\ pc = "yaml"
  /\ discovered' = "yamlBuild"
  /\ pc' = "port"
  /\ portAllocs' = portAllocs + 1
  /\ UNCHANGED <<sdkVars, outerVars, i, port, children, probeOutcome,
                 killVars, result, error, logs, yamlReads, probes, probePort>>

\* detectFromYaml resolves with a Build: it is returned as it is.
YamlFound ==
  /\ pc = "yaml"
  /\ discovered' = "yamlBuild"
  /\ pc' = "done"
  /\ result' = "yamlBuild"
  /\ UNCHANGED <<sdkVars, outerVars, i, port, children, probeOutcome,
                 killVars, error, logs, countVars>>

\* detectFromYaml resolves with undefined: findRandomOpenPort is called.
YamlAbsent ==
  /\ pc = "yaml"
  /\ pc' = "port"
  /\ portAllocs' = portAllocs + 1
  /\ UNCHANGED <<sdkVars, outerVars, i, port, children, discovered, probeOutcome,
                 killVars, result, error, logs, yamlReads, probes, probePort>>

\* detectFromYaml rejects.
YamlFails ==
  /\ pc = "yaml"
  /\ pc' = "failed"
  /\ error' = "YamlError"
  /\ UNCHANGED <<sdkVars, outerVars, i, port, children, discovered, probeOutcome,
                 killVars, result, logs, countVars>>

\* portfinder calls back with a port: the first free one at or above the
\* random base. The retry loop starts and serve spawns the first child.
PortFound ==
  /\ pc = "port"
  /\ \E base \in BasePorts, skip \in 0..MaxPortSkip, b \in SpawnOutcomes :
       /\ port' = base + skip
       /\ children' = Append(children, NewChild(b, base + skip))
  /\ i' = 0
  /\ pc' = "window"
  /\ UNCHANGED <<sdkVars, outerVars, discovered, probeOutcome, killVars, result,
                 error, logs, countVars>>

\* findRandomOpenPort called again after a failure, up to NUM_RETRIES times.
PortFailsRetries ==
  /\ pc = "port"
  /\ IF portAllocs < NUM_RETRIES
     THEN /\ portAllocs' = portAllocs + 1
          /\ pc' = "port"
          /\ error' = error
     ELSE /\ portAllocs' = portAllocs
          /\ pc' = "failed"
          /\ error' = "AllocationError"
  /\ UNCHANGED <<sdkVars, outerVars, i, port, children, discovered, probeOutcome,
                 killVars, result, logs, yamlReads, probes, probePort>>

\* portfinder calls back with an error: reject(err) settles the promise,
\* the resolve(port) that follows it has no effect.
PortFails ==
  /\ pc = "port"
  /\ pc' = "failed"
  /\ error' = "AllocationError"
  /\ UNCHANGED <<sdkVars, outerVars, i, port, children, discovered, probeOutcome,
                 killVars, result, logs, countVars>>

\* ------------------------------------------------------------ serve
\* findRandomOpenPort called inside the retry loop: each attempt has a port
\* of its own.
ServeErrorNewPort ==
  /\ pc = "window"
  /\ children[Len(children)].state = "spawnFailed"
  /\ logs' = Append(logs, "debug: failed to bring up server")
  /\ i' = i + 1
  /\ LET failed == [children EXCEPT ![Len(children)].served = "failed"]
     IN IF i + 1 < NUM_RETRIES
        THEN /\ \E b \in SpawnOutcomes :
                  children' = Append(failed, NewChild(b, port + 1))
             /\ port' = port + 1
             /\ pc' = "window"
             /\ error' = error
        ELSE /\ children' = failed
             /\ port' = port
             /\ pc' = "failed"
             /\ error' = "RetryExhausted"
  /\ UNCHANGED <<sdkVars, outerVars, discovered, probeOutcome, killVars,
                 result, countVars>>

\* The retry loop with i <= NUM_RETRIES as its condition: one attempt more.
ServeErrorOneMore ==
  /\ pc = "window"
  /\ children[Len(children)].state = "spawnFailed"
  /\ logs' = Append(logs, "debug: failed to bring up server")
  /\ i' = i + 1
  /\ LET failed == [children EXCEPT ![Len(children)].served = "failed"]
     IN IF i + 1 <= NUM_RETRIES
        THEN /\ \E b \in SpawnOutcomes :
                  children' = Append(failed, NewChild(b, port))
             /\ pc' = "window"
             /\ error' = error
        ELSE /\ children' = failed
             /\ pc' = "failed"
             /\ error' = "RetryExhausted"
  /\ UNCHANGED <<sdkVars, outerVars, port, discovered, probeOutcome, killVars,
                 result, countVars>>

\* The child emits "error" inside the 5 s window (it could not be spawned):
\* serve rejects, the loop logs it and either calls serve again or, with
\* the attempts used up, throws the FirebaseError.
ServeError ==
  /\ pc = "window"
  /\ children[Len(children)].state = "spawnFailed"
  /\ logs' = Append(logs, "debug: failed to bring up server")
  /\ i' = i + 1
  /\ LET failed == [children EXCEPT ![Len(children)].served = "failed"]
     IN IF i + 1 < NUM_RETRIES
        THEN /\ \E b \in SpawnOutcomes :
                  children' = Append(failed, NewChild(b, port))
             /\ pc' = "window"
             /\ error' = error
        ELSE /\ children' = failed
             /\ pc' = "failed"
             /\ error' = "RetryExhausted"
  /\ UNCHANGED <<sdkVars, outerVars, port, discovered, probeOutcome, killVars,
                 result, countVars>>

\* The retry loop with no return of the closure: after an attempt that
\* succeeded it goes on to the next one.
WindowElapsesNoReturn ==
  /\ pc = "window"
  /\ children[Len(children)].state # "spawnFailed"
  /\ i' = i + 1
  /\ LET ok == [children EXCEPT ![Len(children)].served = "ok"]
     IN IF i + 1 < NUM_RETRIES
        THEN /\ \E b \in SpawnOutcomes :
                  children' = Append(ok, NewChild(b, port))
             /\ pc' = "window"
             /\ error' = error
        ELSE /\ children' = ok
             /\ pc' = "failed"
             /\ error' = "RetryExhausted"
  /\ UNCHANGED <<sdkVars, outerVars, port, discovered, probeOutcome, killVars,
                 result, logs, countVars>>

\* setTimeout(resolve, 5_000) fires with no "error" event before it: serve
\* resolves with the kill closure and discoverBuild calls detectFromPort.
WindowElapses ==
  /\ pc = "window"
  /\ children[Len(children)].state # "spawnFailed"
  /\ children' = [children EXCEPT ![Len(children)].served = "ok"]
  /\ kill' = Len(children)
  /\ pc' = "probe"
  /\ probes' = probes + 1
  /\ probePort' = port
  /\ UNCHANGED <<sdkVars, outerVars, i, port, discovered, probeOutcome, killPc,
                 p, timer, killCalls, result, error, logs, yamlReads, portAllocs>>

\* detectFromPort resolves with a Build (the child answered on the port);
\* the finally block calls kill().
ProbeOk ==
  /\ pc = "probe"
  /\ children[kill].state = "running"
  /\ children[kill].listening
  /\ discovered' = "portBuild"
  /\ probeOutcome' = "ok"
  /\ CallKill(children)
  /\ UNCHANGED <<sdkVars, outerVars, i, port, kill, timer, killCalls, result,
                 error, logs, countVars>>

\* detectFromPort rejects, with kill() called after the await in the place
\* of a finally block: the rejection skips it.
ProbeFailsNoFinally ==
  /\ pc = "probe"
  /\ probeOutcome' = "failed"
  /\ pc' = "failed"
  /\ error' = "ProbeError"
  /\ UNCHANGED <<sdkVars, outerVars, i, port, children, discovered, killVars,
                 result, logs, countVars>>

\* detectFromPort rejects and the finally block calls kill() with no await:
\* the rejection reaches the caller while the closure is still at work.
ProbeFailsNoAwait ==
  /\ pc = "probe"
  /\ probeOutcome' = "failed"
  /\ children' = [children EXCEPT ![kill].terminateCalls = children[kill].terminateCalls + 1]
  /\ p' = "pending"
  /\ killPc' = "fetching"
  /\ pc' = "failed"
  /\ error' = "ProbeError"
  /\ UNCHANGED <<sdkVars, outerVars, i, port, discovered, kill, timer, killCalls,
                 result, logs, countVars>>

\* detectFromPort rejects; the finally block calls kill().
ProbeFails ==
  /\ pc = "probe"
  /\ probeOutcome' = "failed"
  /\ CallKill(children)
  /\ UNCHANGED <<sdkVars, outerVars, i, port, discovered, kill, timer, killCalls,
                 result, error, logs, countVars>>

\* ------------------------------------------------------------ kill closure
\* await fetch(.../__/quitquitquit) resolves: the child answered. The
\* fallback timer is armed and the closure returns p.
QuitFetchOk ==
  /\ killPc = "fetching"
  /\ children[kill].state = "running"
  /\ children[kill].listening
  /\ children[kill].quit \in {"exits", "ignores"}
  /\ children' = [children EXCEPT ![kill].quitReceived = TRUE]
  /\ timer' = "armed"
  /\ killPc' = "returned"
  /\ UNCHANGED <<sdkVars, outerVars, pc, i, port, discovered, probeOutcome, kill,
                 p, killCalls, result, error, logs, countVars>>

\* await fetch(...) rejects: nothing answers on the port. The closure
\* rejects at that line, and so does the await kill() of the finally block:
\* discoverBuild rejects with the error of the request.
QuitFetchFails ==
  /\ killPc = "fetching"
  /\ \/ children[kill].state # "running"
     \/ ~children[kill].listening
  /\ killPc' = "rejected"
  /\ pc' = "failed"
  /\ error' = "ShutdownError"
  /\ UNCHANGED <<sdkVars, outerVars, i, port, children, discovered, probeOutcome,
                 kill, p, timer, killCalls, result, logs, countVars>>

\* The closure returning without p: await kill() resumes as soon as the
\* quit request has been answered.
KillSettlesWithoutP ==
  /\ pc = "kill"
  /\ killPc = "returned"
  /\ killPc' = "resolved"
  /\ IF probeOutcome = "ok"
     THEN /\ pc' = "done"
          /\ result' = discovered
          /\ error' = error
     ELSE /\ pc' = "failed"
          /\ error' = "ProbeError"
          /\ result' = result
  /\ UNCHANGED <<sdkVars, outerVars, i, port, children, discovered, probeOutcome,
                 kill, p, timer, killCalls, logs, countVars>>

\* p is resolved and the closure has returned it: await kill() resumes and
\* the finally block completes as the try block did.
KillSettles ==
  /\ pc = "kill"
  /\ killPc = "returned"
  /\ p = "resolved"
  /\ killPc' = "resolved"
  /\ IF probeOutcome = "ok"
     THEN /\ pc' = "done"
          /\ result' = discovered
          /\ error' = error
     ELSE /\ pc' = "failed"
          /\ error' = "ProbeError"
          /\ result' = result
  /\ UNCHANGED <<sdkVars, outerVars, i, port, children, discovered, probeOutcome,
                 kill, p, timer, killCalls, logs, countVars>>

\* The 10 s timer fires: if (!childProcess.killed) childProcess.kill("SIGKILL").
\* kill() delivers the signal, and sets killed, only to a child that has
\* not exited.
FallbackTimerFires ==
  /\ timer = "armed"
  /\ timer' = "fired"
  /\ IF ~children[kill].killed
     THEN /\ killCalls' = killCalls + 1
          /\ children' = IF children[kill].state = "running"
                         THEN [children EXCEPT ![kill].killed = TRUE,
                                               ![kill].sigkill = TRUE]
                         ELSE [children EXCEPT ![kill].killsAfterExit =
                                                 children[kill].killsAfterExit + 1]
     ELSE UNCHANGED <<killCalls, children>>
  /\ UNCHANGED <<sdkVars, outerVars, pc, i, port, discovered, probeOutcome, kill,
                 killPc, p, result, error, logs, countVars>>

\* ------------------------------------------------------------ the child
\* A running child exits by itself (it crashes, or its code ends).
ChildExits ==
  /\ \E k \in DOMAIN children :
       /\ children[k].state = "running"
       /\ Exit(k, "self")
  /\ UNCHANGED <<sdkVars, outerVars, pc, i, port, discovered, probeOutcome, kill,
                 killPc, timer, killCalls, result, error, logs, countVars>>

\* A child that honours the quit request exits after answering it.
ChildQuits ==
  /\ \E k \in DOMAIN children :
       /\ children[k].state = "running"
       /\ children[k].quitReceived
       /\ children[k].quit = "exits"
       /\ Exit(k, "quit")
  /\ UNCHANGED <<sdkVars, outerVars, pc, i, port, discovered, probeOutcome, kill,
                 killPc, timer, killCalls, result, error, logs, countVars>>

\* A child that was sent SIGKILL exits.
ChildKilled ==
  /\ \E k \in DOMAIN children :
       /\ children[k].state = "running"
       /\ children[k].sigkill
       /\ Exit(k, "SIGKILL")
  /\ UNCHANGED <<sdkVars, outerVars, pc, i, port, discovered, probeOutcome, kill,
                 killPc, timer, killCalls, result, error, logs, countVars>>

\* ------------------------------------------------------------ specification
Next ==
  \/ DiscoverBuild
  \/ Validate
  \/ LegacyReturns
  \/ LegacyFails
  \/ YamlFound
  \/ YamlAbsent
  \/ YamlFails
  \/ PortFound
  \/ PortFails
  \/ ServeError
  \/ WindowElapses
  \/ ProbeOk
  \/ ProbeFails
  \/ QuitFetchOk
  \/ QuitFetchFails
  \/ KillSettles
  \/ FallbackTimerFires
  \/ ChildExits
  \/ ChildQuits
  \/ ChildKilled

Spec == Init /\ [][Next]_vars

\* The steps the event loop, the timers and the collaborators guarantee to
\* take once they can: everything except a new call by the caller and a
\* child exiting by itself.
Progress ==
  \/ LegacyReturns
  \/ LegacyFails
  \/ YamlFound
  \/ YamlAbsent
  \/ YamlFails
  \/ PortFound
  \/ PortFails
  \/ ServeError
  \/ WindowElapses
  \/ ProbeOk
  \/ ProbeFails
  \/ QuitFetchOk
  \/ QuitFetchFails
  \/ KillSettles
  \/ FallbackTimerFires
  \/ ChildQuits
  \/ ChildKilled

FairSpec == Spec /\ WF_vars(Progress)

EnvSpec == EnvInit /\ [][Next]_vars

\* ------------------------------------------------------------ two calls at once
\* findRandomOpenPort of call d resolves and its retry loop spawns the
\* child with that PORT; nothing holds the port until the child binds it.
ConcPortFound(d) ==
  /\ cStage[d] = "idle"
  /\ \E base \in ConcBases :
       cPort' = [cPort EXCEPT ![d] = getPort(base, Busy)]
  /\ cStage' = [cStage EXCEPT ![d] = "spawned"]
  /\ UNCHANGED <<cBound, foreign, delegateVars>>

\* The child of call d binds its PORT and listens.
ConcChildListens(d) ==
  /\ cStage[d] = "spawned"
  /\ cPort[d] \notin Busy
  /\ cBound' = cBound \cup {d}
  /\ cStage' = [cStage EXCEPT ![d] = "listening"]
  /\ UNCHANGED <<cPort, foreign, delegateVars>>

\* The child of call d finds its PORT taken.
ConcBindFails(d) ==
  /\ cStage[d] = "spawned"
  /\ cPort[d] \in Busy
  /\ cStage' = [cStage EXCEPT ![d] = "bindFailed"]
  /\ UNCHANGED <<cPort, cBound, foreign, delegateVars>>

\* The probe and the shutdown of call d are over: its child is gone.
ConcDone(d) ==
  /\ cStage[d] \in {"listening", "bindFailed"}
  /\ cBound' = cBound \ {d}
  /\ cStage' = [cStage EXCEPT ![d] = "done"]
  /\ UNCHANGED <<cPort, foreign, delegateVars>>

ConcNext ==
  \/ \E d \in Invocations : ConcPortFound(d)
  \/ \E d \in Invocations : ConcChildListens(d)
  \/ \E d \in Invocations : ConcBindFails(d)
  \/ \E d \in Invocations : ConcDone(d)

ConcSpec == ConcInit /\ [][ConcNext]_vars

\* ------------------------------------------------------------ properties
Finished == pc \in {"done", "failed"}

Warned == \E n \in DOMAIN logs : logs[n] = "warning: old sdk version"

\* C1: whenever discoverBuild has returned or failed, no child process
\* spawned by that call is still running.
C1_NoChildLeftRunning ==
  Finished => \A k \in DOMAIN children : children[k].state # "running"

\* C2: the kill closure of a successful serve is invoked exactly once, after
\* the probe has settled, whether the probe succeeded or failed; no closure
\* is invoked for an attempt that did not succeed.
C2_TerminateExactlyOnce ==
  \A k \in DOMAIN children :
    /\ children[k].terminateCalls <= 1
    /\ children[k].terminateCalls = 1 => children[k].served = "ok" /\ probeOutcome # "none"
    /\ (children[k].served = "ok" /\ pc \in {"kill", "done", "failed"})
         => children[k].terminateCalls = 1
    /\ (children[k].served = "ok" /\ pc = "probe") => children[k].terminateCalls = 0

C2_Witness ==
  /\ pc = "failed"
  /\ probeOutcome = "failed"
  /\ kill # 0
  /\ children[kill].served = "ok"
  /\ children[kill].terminateCalls = 1

\* C3: serve is attempted one call after the other and at most 3 times,
\* stopping at the first success: a third attempt that succeeds leads to the
\* probe; three failures make discoverBuild fail with the retry error, with
\* no probe and no kill closure called.
C3_RetryBudget ==
  /\ Len(children) <= 3
  /\ \A k \in 1..(Len(children) - 1) : children[k].served = "failed"
  /\ (Len(children) = 3 /\ children[3].served = "ok")
       => (probes = 1 /\ pc \in {"probe", "kill", "done", "failed"} /\ error # "RetryExhausted")
  /\ (Len(children) = 3 /\ children[3].served = "failed")
       => (pc = "failed" /\ error = "RetryExhausted")
  /\ error = "RetryExhausted"
       => /\ pc = "failed"
          /\ Len(children) = 3
          /\ \A k \in DOMAIN children :
               children[k].served = "failed" /\ children[k].terminateCalls = 0
          /\ probes = 0
          /\ kill = 0
          /\ killPc = "none"

C3_Witness ==
  /\ error = "RetryExhausted"
  /\ Len(children) = 3
  /\ probes = 0

\* C4: if the kill closure throws after detectFromPort has succeeded,
\* discoverBuild still returns the Build of the probe.
C4_ShutdownFailureKeepsBuild ==
  (probeOutcome = "ok" /\ killPc = "rejected")
    => (pc = "done" /\ result = "portBuild")

\* C5: if detectFromPort fails and the kill closure fails too, the error
\* discoverBuild surfaces is the error of the probe.
C5_ProbeErrorSurfaces ==
  (probeOutcome = "failed" /\ killPc = "rejected")
    => (pc = "failed" /\ error = "ProbeError")

\* C6: once the quit request of the kill closure has settled, by success or
\* by failure, the fallback timer is armed for a child that has not exited.
C6_FallbackArmed ==
  (killPc \in {"returned", "resolved", "rejected"} /\ children[kill].state = "running")
    => timer \in {"armed", "fired"}

\* C7: the promise of the kill closure resolves only after the exit event of
\* the child; with a child that answers the quit request and keeps running,
\* it resolves only after the fallback timer has fired SIGKILL and the child
\* has exited.
C7_ResolvesOnlyAfterExit ==
  /\ killPc = "resolved"
       => /\ children[kill].state = "exited"
          /\ p = "resolved"
  /\ (killPc = "resolved" /\ children[kill].quit = "ignores"
        /\ children[kill].exitCause # "self")
       => /\ timer = "fired"
          /\ killCalls = 1
          /\ children[kill].exitCause = "SIGKILL"
  /\ (pc = "done" /\ result = "portBuild") => children[kill].state = "exited"

C7_Witness ==
  /\ killPc = "resolved"
  /\ children[kill].quit = "ignores"
  /\ children[kill].exitCause = "SIGKILL"
  /\ pc = "done"

\* C8: every wait is bounded: a discoverBuild call that has started
\* eventually returns or fails.
C8_AlwaysSettles ==
  (pc \notin {"idle", "done", "failed"}) ~> Finished

\* C9: serve returns a kill closure only for a child that did not exit
\* inside the 5 s window, so the probe never runs against a child that
\* exited inside it.
C9_LiveOnlyIfNoEarlyExit ==
  \A k \in DOMAIN children :
    children[k].served = "ok" => ~children[k].exitedInWindow

\* C10: with an SDK version that is no semantic version or is below 3.20.0,
\* discoverBuild returns the result of the legacy analyzer with no manifest
\* read, port allocation, spawn or probe, and warns only in the below-minimum
\* case; otherwise the manifest reader comes first and the dynamic path is
\* taken only if it finds nothing.
C10_VersionGate ==
  LET unparsable == actualSdk.raw \in {"", "not-a-version"}
      below == actualSdk.raw \in {"2.0.0", "3.19.9", "3.20.0-rc.1"}
  IN pc # "idle" =>
       IF unparsable \/ below
       THEN /\ pc \in {"legacy", "done", "failed"}
            /\ yamlReads = 0 /\ portAllocs = 0 /\ probes = 0
            /\ children = <<>>
            /\ pc = "done" => result = "legacyBuild"
            /\ pc = "failed" => error = "LegacyError"
            /\ Warned <=> below
            /\ unparsable => logs = <<"debug: could not parse version">>
       ELSE /\ pc # "legacy"
            /\ yamlReads = 1
            /\ logs # <<>> => \A n \in DOMAIN logs : logs[n] = "debug: failed to bring up server"
            /\ result # "legacyBuild"
            /\ pc = "yaml" => portAllocs = 0
            /\ discovered = "yamlBuild"
                 => (portAllocs = 0 /\ probes = 0 /\ children = <<>>)

C10_Witness ==
  /\ pc = "done"
  /\ result = "legacyBuild"
  /\ actualSdk.raw = "3.19.9"
  /\ Warned
  /\ yamlReads = 0

\* C11: when detectFromYaml returns a Build, discoverBuild returns exactly
\* that Build with no port allocation, spawn, probe or kill call, and every
\* repeated call in that situation does the same.
C11_ManifestReturnedDirectly ==
  /\ discovered = "yamlBuild"
       => /\ pc = "done"
          /\ result = "yamlBuild"
          /\ yamlReads = 1
          /\ portAllocs = 0 /\ port = 0
          /\ children = <<>>
          /\ probes = 0
          /\ kill = 0 /\ killPc = "none" /\ timer = "unarmed"
  /\ \A n \in DOMAIN yamlCalls :
       /\ yamlCalls[n].result = "yamlBuild"
       /\ yamlCalls[n].portAllocs = 0
       /\ yamlCalls[n].spawns = 0
       /\ yamlCalls[n].probes = 0
       /\ yamlCalls[n].terminates = 0

C11_Witness ==
  /\ Len(yamlCalls) = 1
  /\ calls = 2
  /\ pc = "done"
  /\ discovered = "yamlBuild"
  /\ result = yamlCalls[1].result

\* C12: when detectFromPort fails after a successful serve, discoverBuild
\* fails and returns no Build, and it fails only after the kill closure has
\* been called and has settled.
C12_ProbeFailureAfterShutdown ==
  probeOutcome = "failed"
    => /\ pc \in {"kill", "failed"}
       /\ result = "none"
       /\ children[kill].served = "ok"
       /\ children[kill].terminateCalls = 1
       /\ pc = "kill" => killPc \in {"fetching", "returned"}
       /\ pc = "failed" => (killPc \in {"resolved", "rejected"} /\ error # "none")

C12_Witness ==
  /\ probeOutcome = "failed"
  /\ pc = "failed"
  /\ killPc = "resolved"
  /\ error = "ProbeError"

\* C13: versioning.getFunctionsSDKVersion is called at most once per
\* Delegate, whatever the sequence of validate and discoverBuild calls.
C13_ComputedAtMostOnce ==
  getSdkCalls <= 1

\* The number a sequence of decimal digits denotes.
DigitValue(c) == CHOOSE d \in 0..9 : Digits[d + 1] = c

RECURSIVE parseInt(_)
parseInt(ds) ==
  IF ds = <<>> THEN 0
  ELSE 10 * parseInt(SubSeq(ds, 1, Len(ds) - 1)) + DigitValue(ds[Len(ds)])

\* C14: the environment serve hands to the child has PORT equal to the port
\* argument, whatever PORT the caller supplied; HOME, PATH and NODE_ENV are
\* those of the host; every other key is the control-API flag, the encoded
\* runtime config or a variable of the caller, with the caller's value.
C14_ChildEnvironment ==
  \A k \in DOMAIN children :
    LET env == children[k].env
    IN /\ port # 0
       /\ "PORT" \in DOMAIN env
       /\ parseInt(env["PORT"]) = port
       /\ {"FUNCTIONS_CONTROL_API", "HOME", "PATH", "NODE_ENV"} \subseteq DOMAIN env
       /\ "CLOUD_RUNTIME_CONFIG" \in DOMAIN env
            <=> (DOMAIN config # {} \/ "CLOUD_RUNTIME_CONFIG" \in DOMAIN envs)
       /\ \A key \in (DOMAIN env) \ {"PORT"} :
            IF key \in {"HOME", "PATH", "NODE_ENV"}
            THEN env[key] = IF key \in DOMAIN hostEnv THEN hostEnv[key] ELSE Undefined
            ELSE IF key = "FUNCTIONS_CONTROL_API"
            THEN env[key] = "true"
            ELSE IF key = "CLOUD_RUNTIME_CONFIG" /\ DOMAIN config # {}
            THEN env[key] = [json |-> config]
            ELSE key \in DOMAIN envs /\ env[key] = envs[key]

C14_Witness ==
  /\ children # <<>>
  /\ children[1].state = "running"
  /\ "PORT" \in DOMAIN envs
  /\ envs["PORT"] # children[1].env["PORT"]
  /\ "FOO" \in DOMAIN envs
  /\ children[1].env["FOO"] = "bar"
  /\ "SECRET_TOKEN" \notin DOMAIN children[1].env

\* C15: two discoverBuild calls in flight together never have the same
\* port, whatever the order of their allocations and spawns.
C15_DistinctPorts ==
  \A d1, d2 \in Invocations :
    (d1 # d2 /\ cStage[d1] \in {"spawned", "listening", "bindFailed"}
             /\ cStage[d2] \in {"spawned", "listening", "bindFailed"})
      => cPort[d1] # cPort[d2]

\* C16: within one discoverBuild call at most one child process is live at
\* any time: when a new serve attempt exists, every earlier attempt has
\* failed and its process is not running.
C16_OneLiveChild ==
  /\ Cardinality({k \in DOMAIN children : children[k].state = "running"}) <= 1
  /\ \A k \in DOMAIN children :
       k < Len(children)
         => /\ children[k].served = "failed"
            /\ children[k].state # "running"

C16_Witness ==
  /\ Len(children) = 2
  /\ children[1].served = "failed"
  /\ children[2].state = "running"
  /\ pc = "window"

\* C17: on the dynamic path the steps come in the order port allocation,
\* spawn attempts, probe, kill closure, return; the port is allocated once,
\* every attempt and the probe use it, and a first attempt that succeeds is
\* the only spawn of the call, which then returns the probed Build.
C17_DynamicPathOrder ==
  /\ portAllocs <= 1
  /\ port # 0 => (portAllocs = 1 /\ yamlReads = 1)
  /\ pc = "port" => (port = 0 /\ children = <<>>)
  /\ children # <<>>
       => /\ port # 0
          /\ \A k \in DOMAIN children : children[k].PORT = port
  /\ pc = "window" => (probes = 0 /\ killPc = "none")
  /\ probes <= 1
  /\ probes = 1
       => /\ probePort = port
          /\ children # <<>>
          /\ kill = Len(children)
          /\ children[kill].served = "ok"
  /\ pc = "probe" => (probes = 1 /\ killPc = "none" /\ probeOutcome = "none")
  /\ killPc # "none" => (probes = 1 /\ probeOutcome # "none")
  /\ (pc = "done" /\ port # 0)
       => /\ probeOutcome = "ok"
          /\ killPc = "resolved"
          /\ result = "portBuild"
  /\ (children # <<>> /\ children[1].served = "ok") => Len(children) = 1

C17_Witness ==
  /\ pc = "done"
  /\ result = "portBuild"
  /\ Len(children) = 1
  /\ portAllocs = 1
  /\ probePort = port
  /\ children[1].PORT = port

C19_ExitObserved ==
  /\ killPc = "none" <=> p = "none"
  /\ (killPc # "none" /\ children[kill].liveAtKill /\ children[kill].state = "exited")
       => p = "resolved"
  /\ p = "resolved" => children[kill].state = "exited"

C19_Witness ==
  /\ killPc = "fetching"
  /\ children[kill].liveAtKill
  /\ children[kill].state = "exited"
  /\ p = "resolved"

\* C20: if the port allocation fails, discoverBuild fails at once with that
\* error: the allocation is made once, and no serve attempt, probe or kill
\* call follows.
C20_AllocationFailure ==
  /\ portAllocs <= 1
  /\ pc = "port" => (portAllocs = 1 /\ error = "none")
  /\ error = "AllocationError"
       => /\ pc = "failed"
          /\ portAllocs = 1
          /\ port = 0
          /\ children = <<>>
          /\ logs = <<>>
          /\ probes = 0
          /\ kill = 0 /\ killPc = "none" /\ timer = "unarmed"
          /\ result = "none"

C20_Witness ==
  /\ error = "AllocationError"
  /\ pc = "failed"
  /\ portAllocs = 1

====
